---- MODULE Spec2Model ----
(***************************************************************************)
(* Model of the CloudMap -> neo4j synchronisation.                         *)
(*                                                                         *)
(*   producer/producer.py  captures the registry and sends one SQS message *)
(*   consumer/consumer.py  lambda_handler: takes the DynamoDB lock item,   *)
(*                         merges the payload into neo4j, prunes the nodes *)
(*                         of older transactions, releases the lock.       *)
(*                                                                         *)
(* Every store call of the consumer is one step of a worker (a concurrent  *)
(* execution of lambda_handler), so that all interleavings of the workers' *)
(* lock reads and conditional writes are explored.                         *)
(***************************************************************************)
EXTENDS Naturals, Sequences, FiniteSets

\* ---------------------------------------------------------------- bounds
NumWorkers == 2         \* concurrent executions of the consumer's lambda_handler
MaxInvocations == 2     \* invocations of the consumer, over all workers
MaxMessages == 2        \* messages in the queue
MaxRecords == 2         \* records in one event

Workers == 1..NumWorkers
ServiceNames == {"A", "B"}
InstanceIds == {"i1"}
NEO4J_RELATIONSHIP_TO_SERVICE == "NEO4J_RELATIONSHIP_TO_SERVICE"
TagKeys == {NEO4J_RELATIONSHIP_TO_SERVICE}

\* ------------------------------------------------------- payload universe
\* The sequences over S of length at most n.
RECURSIVE SeqsUpTo(_, _)
SeqsUpTo(S, n) ==
    IF n = 0 THEN {<< >>}
    ELSE LET shorter == SeqsUpTo(S, n - 1)
         IN  shorter \cup
             {Append(s, x) : s \in {t \in shorter : Len(t) = n - 1},
                             x \in S}

NamesDistinct(s) == \A a, b \in 1..Len(s) : s[a].Name = s[b].Name => a = b
IdsDistinct(s) == \A a, b \in 1..Len(s) : s[a].Id = s[b].Id => a = b
KeysDistinct(s) == \A a, b \in 1..Len(s) : s[a].Key = s[b].Key => a = b

\* CloudMap: instance ids are unique in a service, tag keys in a resource,
\* service names in the namespace the producer lists.
InstanceRecords == [Id : InstanceIds]
TagRecords == [Key : TagKeys, Value : ServiceNames]
InstanceLists ==
    {s \in SeqsUpTo(InstanceRecords, Cardinality(InstanceIds)) : IdsDistinct(s)}
TagLists == {s \in SeqsUpTo(TagRecords, Cardinality(TagKeys)) : KeysDistinct(s)}
ServiceRecords ==
    {r \in [Name : ServiceNames, Instances : InstanceLists, Tags : TagLists] :
        \A k \in 1..Len(r.Tags) : r.Tags[k].Value # r.Name}
\* The 'Services' list of a message body.
Payloads ==
    {s \in SeqsUpTo(ServiceRecords, Cardinality(ServiceNames)) : NamesDistinct(s)}

VARIABLES
    queue,            \* SQS: queue[m] is the body of the message with messageId m
    ddb_table,        \* DynamoDB: the items with the lock item's id (none or one)
    neo4j,            \* the graph: Service and Instance nodes, REGISTERED and DEP_ON
    pc,               \* pc[w]: where worker w is in lambda_handler
    event,            \* event[w]: event['Records'], as the records' messageIds
    lock_item,        \* lock_item[w]: what acquire_lock's get_item returned
    i,                \* i[w]: index into services_list
    j,                \* j[w]: index into service['Instances']
    err,              \* err[w]: the exception lambda_handler raised ("": none)
    invocations,      \* invocations started so far
    acquires,         \* history: the version each successful acquire_lock had read
    releases          \* history: releases[w]: release_lock calls of w's invocation

vars == <<queue, ddb_table, neo4j, pc, event, lock_item, i, j, err, invocations,
          acquires, releases>>

\* ------------------------------------------------------------- DynamoDB
\* get_item: the response holds 'Item' only when the item exists.
get_item(table) == table

\* put_item that overwrites: no ConditionExpression
put_item_unconditional(table) == TRUE

\* put_item with ConditionExpression attribute_not_exists(id)
put_item_condition(table) == table = {}

\* The condition without its lock_bool part
acquire_condition_version_only(table, current_version) ==
    \E it \in table : it.version = current_version

\* The condition without its version part
acquire_condition_lock_only(table, current_version) ==
    \E it \in table : it.lock_bool = FALSE

\* update_item's ConditionExpression of acquire_lock
acquire_condition(table, current_version) ==
    \E it \in table : it.version = current_version /\ it.lock_bool = FALSE

\* An UpdateExpression of acquire_lock that sets the version only
acquire_update_version_only(table, current_version) ==
    {[it EXCEPT !.version = current_version + 1] : it \in table}

\* update_item's UpdateExpression of acquire_lock
acquire_update(table, current_version) ==
    {[it EXCEPT !.lock_bool = TRUE, !.version = current_version + 1] : it \in table}

\* update_item's ConditionExpression of release_lock
release_condition(table) == \E it \in table : it.lock_bool = TRUE

\* An UpdateExpression of release_lock that counts the release in version
release_update_bumps_version(table) ==
    {[it EXCEPT !.lock_bool = FALSE, !.version = @ + 1] : it \in table}

\* update_item's UpdateExpression of release_lock
release_update(table) == {[it EXCEPT !.lock_bool = FALSE] : it \in table}

\* ---------------------------------------------------------------- neo4j
EmptyGraph == [Service |-> {}, Instance |-> {}, REGISTERED |-> {}, DEP_ON |-> {}]

\* <Node>.nodes.get(name=...): the nodes with that name (none: DoesNotExist)
nodes_get(nodes, name) == {n \in nodes : n.name = name}

\* node.save() of a node that exists: its properties are overwritten
save(nodes, name, update_id) ==
    {IF n.name = name THEN [n EXCEPT !.update_id = update_id] ELSE n : n \in nodes}

\* Cypher MERGE (us)-[r]->(them): no second relationship between the same nodes
connect(rels, from, to) == rels \cup {<<from, to>>}

\* merge_s that leaves a node it finds as it is
merge_s_creates_only(g, service, update_id) ==
    IF nodes_get(g.Service, service.Name) = {}
    THEN [g EXCEPT !.Service = @ \cup {[name |-> service.Name, update_id |-> update_id]}]
    ELSE g

merge_s(g, service, update_id) ==
    IF nodes_get(g.Service, service.Name) = {}
    THEN [g EXCEPT !.Service = @ \cup {[name |-> service.Name, update_id |-> update_id]}]
    ELSE [g EXCEPT !.Service = save(@, service.Name, update_id)]

\* merge_instance that leaves the stamp of a node it finds as it is
merge_instance_creates_only(g, service, instance, update_id) ==
    LET merged ==
            IF nodes_get(g.Instance, instance.Id) = {}
            THEN [g EXCEPT !.Instance = @ \cup {[name |-> instance.Id, update_id |-> update_id]}]
            ELSE g
    IN  [merged EXCEPT !.REGISTERED = connect(@, instance.Id, service.Name)]

merge_instance(g, service, instance, update_id) ==
    LET merged ==
            IF nodes_get(g.Instance, instance.Id) = {}
            THEN [g EXCEPT !.Instance = @ \cup {[name |-> instance.Id, update_id |-> update_id]}]
            ELSE [g EXCEPT !.Instance = save(@, instance.Id, update_id)]
    IN  [merged EXCEPT !.REGISTERED = connect(@, instance.Id, service.Name)]

\* The value of the last tag with the key; {} when no tag has it (None).
relationship_to_service(tags_list, tag_key) ==
    LET hits == {k \in 1..Len(tags_list) : tags_list[k].Key = tag_key}
    IN  IF hits = {} THEN {}
        ELSE {tags_list[CHOOSE k \in hits : \A h \in hits : h <= k].Value}

\* connect_service_rel_to_service that does not look the target up
connect_service_rel_to_service_unchecked(g, service, tags_list, tag_key) ==
    [g EXCEPT !.DEP_ON =
        @ \cup {<<service.Name, t>> : t \in relationship_to_service(tags_list, tag_key)}]

connect_service_rel_to_service(g, service, tags_list, tag_key) ==
    LET targets == relationship_to_service(tags_list, tag_key)
    IN  [g EXCEPT !.DEP_ON =
            @ \cup {<<service.Name, t>> : t \in {x \in targets : nodes_get(g.Service, x) # {}}}]

\* node.delete(): the node goes with the relationships it takes part in
delete_instance(g, name) ==
    [g EXCEPT !.Instance = {n \in @ : n.name # name},
              !.REGISTERED = {e \in @ : e[1] # name}]

\* A delete of the Service node that leaves the DEP_ON relationships
delete_service_keeps_dep_on(g, name) ==
    [g EXCEPT !.Service = {n \in @ : n.name # name},
              !.REGISTERED = {e \in @ : e[2] # name}]

delete_service(g, name) ==
    [g EXCEPT !.Service = {n \in @ : n.name # name},
              !.REGISTERED = {e \in @ : e[2] # name},
              !.DEP_ON = {e \in @ : e[1] # name /\ e[2] # name}]

\* Obsolete are only the nodes with a smaller update_id
obsolete_older(nodes, update_id) == {n.name : n \in {x \in nodes : x.update_id < update_id}}

obsolete(nodes, update_id) == {n.name : n \in {x \in nodes : x.update_id # update_id}}

RECURSIVE delete_instances(_, _)
delete_instances(g, names) ==
    IF names = {} THEN g
    ELSE LET n == CHOOSE x \in names : TRUE
         IN  delete_instances(delete_instance(g, n), names \ {n})

RECURSIVE delete_services(_, _)
delete_services(g, names) ==
    IF names = {} THEN g
    ELSE LET n == CHOOSE x \in names : TRUE
         IN  delete_services(delete_service(g, n), names \ {n})

\* clean_neo4j without its second loop
clean_neo4j_instances_only(g, update_id) ==
    delete_instances(g, obsolete(g.Instance, update_id))

clean_neo4j(g, update_id) ==
    LET g1 == delete_instances(g, obsolete(g.Instance, update_id))
    IN  delete_services(g1, obsolete(g1.Service, update_id))

\* update_neo4j's first loop, from service k on
RECURSIVE merge_instances(_, _, _, _)
merge_instances(g, service, k, update_id) ==
    IF k > Len(service.Instances) THEN g
    ELSE merge_instances(merge_instance(g, service, service.Instances[k], update_id),
                         service, k + 1, update_id)

RECURSIVE merge_services(_, _, _, _)
merge_services(g, services, k, update_id) ==
    IF k > Len(services) THEN g
    ELSE merge_services(
             merge_instances(merge_s(g, services[k], update_id), services[k], 1, update_id),
             services, k + 1, update_id)

\* update_neo4j's second loop, from service k on
RECURSIVE connect_services(_, _, _)
connect_services(g, services, k) ==
    IF k > Len(services) THEN g
    ELSE connect_services(
             connect_service_rel_to_service(g, services[k], services[k].Tags,
                                            NEO4J_RELATIONSHIP_TO_SERVICE),
             services, k + 1)

\* update_neo4j with one loop: the relationship of a service is resolved
\* right after the service and its instances are merged
RECURSIVE merge_and_connect(_, _, _, _)
merge_and_connect(g, services, k, update_id) ==
    IF k > Len(services) THEN g
    ELSE merge_and_connect(
             connect_service_rel_to_service(
                 merge_instances(merge_s(g, services[k], update_id), services[k], 1, update_id),
                 services[k], services[k].Tags, NEO4J_RELATIONSHIP_TO_SERVICE),
             services, k + 1, update_id)

update_neo4j_one_loop(g, services, update_id) == merge_and_connect(g, services, 1, update_id)

update_neo4j(g, services, update_id) ==
    connect_services(merge_services(g, services, 1, update_id), services, 1)

\* --------------------------------------------------------------- consumer
\* curr_update_id of worker w: the messageId of the first record
curr_update_id(w) == event[w][1]

\* services_list of worker w: json.loads(body)['Services']
services_list(w) == queue[curr_update_id(w)]

Acquiring == {"get_item", "put_item", "update_item"}
Reconciling == {"merge_s", "merge_instance", "connect_service", "clean_neo4j"}
Releasing == {"release_ok", "release_err"}
Free == {"idle", "done", "failed"}

\* Events SQS hands to lambda_handler: batches of different messages.
Events ==
    {s \in SeqsUpTo(1..Len(queue), MaxRecords) :
        Len(s) > 0 /\ \A a, b \in 1..Len(s) : s[a] = s[b] => a = b}

\* lambda_handler without the check of len(event['Records'])
Invoke_any_batch(w) ==
    /\ pc[w] \in Free
    /\ \A v \in Workers : v < w => pc[v] \notin Free
    /\ invocations < MaxInvocations
    /\ invocations' = invocations + 1
    /\ \E Records \in Events :
          /\ event' = [event EXCEPT ![w] = Records]
          /\ pc' = [pc EXCEPT ![w] = "get_item"]
          /\ err' = [err EXCEPT ![w] = ""]
    /\ lock_item' = [lock_item EXCEPT ![w] = {}]
    /\ releases' = [releases EXCEPT ![w] = 0]
    /\ UNCHANGED <<queue, ddb_table, neo4j, i, j, acquires>>

\* lambda_handler up to the call of acquire_lock. The Lambda service runs
\* the invocation in an execution environment that is free.
Invoke(w) ==
    /\ pc[w] \in Free
    /\ \A v \in Workers : v < w => pc[v] \notin Free
    /\ invocations < MaxInvocations
    /\ invocations' = invocations + 1
    /\ \E Records \in Events :
          /\ event' = [event EXCEPT ![w] = Records]
          /\ IF Len(Records) > 1
             THEN /\ pc' = [pc EXCEPT ![w] = "failed"]
                  /\ err' = [err EXCEPT ![w] = "more than 1 message record"]
             ELSE /\ pc' = [pc EXCEPT ![w] = "get_item"]
                  /\ err' = [err EXCEPT ![w] = ""]
    /\ lock_item' = [lock_item EXCEPT ![w] = {}]
    /\ releases' = [releases EXCEPT ![w] = 0]
    /\ UNCHANGED <<queue, ddb_table, neo4j, i, j, acquires>>

\* acquire_lock: get_item
GetItem(w) ==
    /\ pc[w] = "get_item"
    /\ lock_item' = [lock_item EXCEPT ![w] = get_item(ddb_table)]
    /\ pc' = [pc EXCEPT ![w] = IF get_item(ddb_table) = {} THEN "put_item" ELSE "update_item"]
    /\ UNCHANGED <<queue, ddb_table, neo4j, event, i, j, err, invocations, acquires,
                   releases>>

\* Where update_neo4j goes on from service k of its first loop.
AfterMerge(w, k) ==
    IF k <= Len(services_list(w)) THEN "merge_s"
    ELSE IF Len(services_list(w)) > 0 THEN "connect_service" ELSE "clean_neo4j"

\* acquire_lock returns: lambda_handler enters its try block
Acquired(w, read_version) ==
    /\ pc' = [pc EXCEPT ![w] = AfterMerge(w, 1)]
    /\ i' = [i EXCEPT ![w] = IF Len(services_list(w)) > 0 THEN 1 ELSE 0]
    /\ lock_item' = [lock_item EXCEPT ![w] = {}]
    /\ acquires' = Append(acquires, read_version)
    /\ err' = err

\* A failed acquire_lock that lambda_handler ignores
AcquireFailed_goes_on(w, e) ==
    /\ pc' = [pc EXCEPT ![w] = AfterMerge(w, 1)]
    /\ i' = [i EXCEPT ![w] = IF Len(services_list(w)) > 0 THEN 1 ELSE 0]
    /\ err' = [err EXCEPT ![w] = e]
    /\ UNCHANGED <<ddb_table, lock_item, acquires>>

\* A failed acquire_lock inside the try block: the except branch releases
AcquireFailed_releases(w, e) ==
    /\ pc' = [pc EXCEPT ![w] = "failed"]
    /\ err' = [err EXCEPT ![w] = e]
    /\ ddb_table' = (IF release_condition(ddb_table) THEN release_update(ddb_table)
                                                       ELSE ddb_table)
    /\ UNCHANGED <<i, lock_item, acquires>>

\* acquire_lock raises, and lambda_handler with it
AcquireFailed(w, e) ==
    /\ pc' = [pc EXCEPT ![w] = "failed"]
    /\ err' = [err EXCEPT ![w] = e]
    /\ UNCHANGED <<ddb_table, i, lock_item, acquires>>

\* acquire_lock: the lock item did not exist at get_item
PutItem(w) ==
    /\ pc[w] = "put_item"
    /\ IF put_item_condition(ddb_table)
       THEN /\ ddb_table' = {[lock_bool |-> TRUE, version |-> 1]}
            /\ Acquired(w, 0)
       ELSE AcquireFailed(w, "put_item: ConditionalCheckFailedException")
    /\ UNCHANGED <<queue, neo4j, event, j, invocations, releases>>

\* acquire_lock: the lock item existed at get_item
UpdateItem(w) ==
    /\ pc[w] = "update_item"
    /\ \E read \in lock_item[w] :
          LET current_version == read.version
          IN  IF acquire_condition(ddb_table, current_version)
              THEN /\ ddb_table' = acquire_update(ddb_table, current_version)
                   /\ Acquired(w, current_version)
              ELSE AcquireFailed(w, "Cannot aquire lock")
    /\ UNCHANGED <<queue, neo4j, event, j, invocations, releases>>

\* update_neo4j, first loop: merge_s(service, update_id)
MergeS(w) ==
    /\ pc[w] = "merge_s"
    /\ LET service == services_list(w)[i[w]]
       IN  /\ neo4j' = merge_s(neo4j, service, curr_update_id(w))
           /\ IF Len(service.Instances) > 0
              THEN /\ pc' = [pc EXCEPT ![w] = "merge_instance"]
                   /\ j' = [j EXCEPT ![w] = 1]
                   /\ i' = i
              ELSE /\ pc' = [pc EXCEPT ![w] = AfterMerge(w, i[w] + 1)]
                   /\ i' = [i EXCEPT ![w] = IF i[w] < Len(services_list(w)) THEN i[w] + 1 ELSE 1]
                   /\ j' = j
    /\ UNCHANGED <<queue, ddb_table, event, lock_item, err, invocations, acquires,
                   releases>>

\* update_neo4j, first loop: merge_instance(service, instance, update_id)
MergeInstance(w) ==
    /\ pc[w] = "merge_instance"
    /\ LET service == services_list(w)[i[w]]
           instance == service.Instances[j[w]]
       IN  IF nodes_get(neo4j.Service, service.Name) = {}
           THEN \* Service.DoesNotExist leaves update_neo4j
                /\ pc' = [pc EXCEPT ![w] = "release_err"]
                /\ i' = [i EXCEPT ![w] = 0]
                /\ j' = [j EXCEPT ![w] = 0]
                /\ neo4j' = neo4j
           ELSE /\ neo4j' = merge_instance(neo4j, service, instance, curr_update_id(w))
                /\ IF j[w] < Len(service.Instances)
                   THEN /\ j' = [j EXCEPT ![w] = j[w] + 1]
                        /\ UNCHANGED <<pc, i>>
                   ELSE /\ pc' = [pc EXCEPT ![w] = AfterMerge(w, i[w] + 1)]
                        /\ i' = [i EXCEPT ![w] = IF i[w] < Len(services_list(w)) THEN i[w] + 1 ELSE 1]
                        /\ j' = [j EXCEPT ![w] = 0]
    /\ UNCHANGED <<queue, ddb_table, event, lock_item, err, invocations, acquires,
                   releases>>

\* update_neo4j, second loop: connect_service_rel_to_service
ConnectService(w) ==
    /\ pc[w] = "connect_service"
    /\ LET service == services_list(w)[i[w]]
       IN  IF nodes_get(neo4j.Service, service.Name) = {}
           THEN \* Service.DoesNotExist leaves update_neo4j
                /\ pc' = [pc EXCEPT ![w] = "release_err"]
                /\ i' = [i EXCEPT ![w] = 0]
                /\ neo4j' = neo4j
           ELSE /\ neo4j' = connect_service_rel_to_service(
                                neo4j, service, service.Tags, NEO4J_RELATIONSHIP_TO_SERVICE)
                /\ IF i[w] < Len(services_list(w))
                   THEN /\ i' = [i EXCEPT ![w] = i[w] + 1]
                        /\ pc' = pc
                   ELSE /\ pc' = [pc EXCEPT ![w] = "clean_neo4j"]
                        /\ i' = [i EXCEPT ![w] = 0]
    /\ UNCHANGED <<queue, ddb_table, event, lock_item, j, err, invocations, acquires,
                   releases>>

\* clean_neo4j(curr_update_id)
CleanNeo4j(w) ==
    /\ pc[w] = "clean_neo4j"
    /\ neo4j' = clean_neo4j(neo4j, curr_update_id(w))
    /\ pc' = [pc EXCEPT ![w] = "release_ok"]
    /\ UNCHANGED <<queue, ddb_table, event, lock_item, i, j, err, invocations, acquires,
                   releases>>

\* An except branch that raises without release_lock
UpdateNeo4jRaises_no_release(w) ==
    /\ pc[w] \in {"merge_s", "merge_instance", "connect_service"}
    /\ pc' = [pc EXCEPT ![w] = "failed"]
    /\ err' = [err EXCEPT ![w] = "Exception during update neo4j"]
    /\ i' = [i EXCEPT ![w] = 0]
    /\ j' = [j EXCEPT ![w] = 0]
    /\ UNCHANGED <<queue, ddb_table, neo4j, event, lock_item, invocations, acquires,
                   releases>>

\* An except branch that runs clean_neo4j before it releases
UpdateNeo4jRaises_cleans(w) ==
    /\ pc[w] \in {"merge_s", "merge_instance", "connect_service"}
    /\ pc' = [pc EXCEPT ![w] = "release_err"]
    /\ neo4j' = clean_neo4j(neo4j, curr_update_id(w))
    /\ i' = [i EXCEPT ![w] = 0]
    /\ j' = [j EXCEPT ![w] = 0]
    /\ UNCHANGED <<queue, ddb_table, event, lock_item, err, invocations, acquires,
                   releases>>

\* A neo4j call of update_neo4j raises (the store cannot be reached, ...):
\* lambda_handler's except branch.
UpdateNeo4jRaises(w) ==
    /\ pc[w] \in {"merge_s", "merge_instance", "connect_service"}
    /\ pc' = [pc EXCEPT ![w] = "release_err"]
    /\ i' = [i EXCEPT ![w] = 0]
    /\ j' = [j EXCEPT ![w] = 0]
    /\ UNCHANGED <<queue, ddb_table, neo4j, event, lock_item, err, invocations, acquires,
                   releases>>

\* A neo4j call of clean_neo4j raises: in its first loop (some obsolete
\* instances are deleted by then) or in its second (all obsolete instances
\* and some obsolete services are).
CleanNeo4jRaises(w) ==
    /\ pc[w] = "clean_neo4j"
    /\ \/ \E gone \in SUBSET obsolete(neo4j.Instance, curr_update_id(w)) :
             neo4j' = delete_instances(neo4j, gone)
       \/ LET g1 == delete_instances(neo4j, obsolete(neo4j.Instance, curr_update_id(w)))
          IN  \E gone \in SUBSET obsolete(g1.Service, curr_update_id(w)) :
                 neo4j' = delete_services(g1, gone)
    /\ pc' = [pc EXCEPT ![w] = "release_err"]
    /\ UNCHANGED <<queue, ddb_table, event, lock_item, i, j, err, invocations, acquires,
                   releases>>

\* release_lock without its ConditionExpression
release_lock_unconditional(table) == [raised |-> FALSE, table |-> release_update(table)]

\* release_lock: one conditional update_item
release_lock(table) ==
    IF release_condition(table)
    THEN [raised |-> FALSE, table |-> release_update(table)]
    ELSE [raised |-> TRUE, table |-> table]

\* lambda_handler's release_lock, in the except and in the else branch, and
\* what it raises after it
ReleaseLock(w) ==
    /\ pc[w] \in Releasing
    /\ ddb_table' = release_lock(ddb_table).table
    /\ releases' = [releases EXCEPT ![w] = @ + 1]
    /\ IF release_lock(ddb_table).raised
       THEN /\ pc' = [pc EXCEPT ![w] = "failed"]
            /\ err' = [err EXCEPT ![w] = "release_lock: ConditionalCheckFailedException"]
       ELSE /\ pc' = [pc EXCEPT ![w] = IF pc[w] = "release_ok" THEN "done" ELSE "failed"]
            /\ err' = [err EXCEPT ![w] =
                          IF pc[w] = "release_ok" THEN "" ELSE "Exception during update neo4j"]
    /\ UNCHANGED <<queue, neo4j, event, lock_item, i, j, invocations, acquires>>

\* release_lock called by a caller that has not acquired the lock.
CallReleaseLock(w) ==
    /\ pc[w] \in Free
    /\ \A v \in Workers : v < w => pc[v] \notin Free
    /\ invocations < MaxInvocations
    /\ invocations' = invocations + 1
    /\ ddb_table' = release_lock(ddb_table).table
    /\ releases' = [releases EXCEPT ![w] = 1]
    /\ event' = [event EXCEPT ![w] = << >>]
    /\ lock_item' = [lock_item EXCEPT ![w] = {}]
    /\ IF release_lock(ddb_table).raised
       THEN /\ pc' = [pc EXCEPT ![w] = "failed"]
            /\ err' = [err EXCEPT ![w] = "release_lock: ConditionalCheckFailedException"]
       ELSE /\ pc' = [pc EXCEPT ![w] = "done"]
            /\ err' = [err EXCEPT ![w] = ""]
    /\ UNCHANGED <<queue, neo4j, i, j, acquires>>

\* A lock that is given up when its holder is killed
Crash_releases(w) ==
    /\ pc[w] \in Reconciling \cup Releasing
    /\ pc' = [pc EXCEPT ![w] = "crashed"]
    /\ ddb_table' = release_update(ddb_table)
    /\ i' = [i EXCEPT ![w] = 0]
    /\ j' = [j EXCEPT ![w] = 0]
    /\ UNCHANGED <<queue, neo4j, event, lock_item, err, invocations, acquires, releases>>

\* The execution is killed (timeout, out of memory) while it holds the lock.
Crash(w) ==
    /\ pc[w] \in Reconciling \cup Releasing
    /\ pc' = [pc EXCEPT ![w] = "crashed"]
    /\ i' = [i EXCEPT ![w] = 0]
    /\ j' = [j EXCEPT ![w] = 0]
    /\ UNCHANGED <<queue, ddb_table, neo4j, event, lock_item, err, invocations, acquires,
                   releases>>

\* One step of lambda_handler that the runtime takes by itself.
Step(w) ==
    \/ GetItem(w)
    \/ PutItem(w)
    \/ UpdateItem(w)
    \/ MergeS(w)
    \/ MergeInstance(w)
    \/ ConnectService(w)
    \/ CleanNeo4j(w)
    \/ ReleaseLock(w)

\* The queue holds the messages the producer has sent: each has its own
\* messageId and one body.
Queues == UNION {[1..n -> Payloads] : n \in 1..MaxMessages}

InitWith(queues) ==
    /\ queue \in queues
    /\ ddb_table = {}
    /\ neo4j = EmptyGraph
    /\ pc = [w \in Workers |-> "idle"]
    /\ event = [w \in Workers |-> << >>]
    /\ lock_item = [w \in Workers |-> {}]
    /\ i = [w \in Workers |-> 0]
    /\ j = [w \in Workers |-> 0]
    /\ err = [w \in Workers |-> ""]
    /\ invocations = 0
    /\ acquires = << >>
    /\ releases = [w \in Workers |-> 0]

Init == InitWith(Queues)

Next ==
    \/ \E w \in Workers : Invoke(w)
    \/ \E w \in Workers : Step(w)
    \/ \E w \in Workers : UpdateNeo4jRaises(w)
    \/ \E w \in Workers : CleanNeo4jRaises(w)

\* Every execution runs to the end of lambda_handler.
Spec == Init /\ [][Next]_vars

\* Executions may also be killed.
NextCrash ==
    \/ Next
    \/ \E w \in Workers : Crash(w)

SpecCrash == Init /\ [][NextCrash]_vars

\* One message in the queue.
OneMessage == {q \in Queues : Len(q) = 1}

\* The runtime runs every invocation on: no execution stops in the middle
\* of lambda_handler.
FairSpec ==
    /\ InitWith(OneMessage)
    /\ [][Next]_vars
    /\ \A w \in Workers : WF_vars(Step(w))

\* The state after an earlier invocation has acquired the lock for the
\* first time, has left the graph empty (update_neo4j raised at its first
\* call, or the snapshot was empty) and has released the lock.
InitAfterRelease(queues) ==
    /\ queue \in queues
    /\ ddb_table = release_update({[version |-> 1, lock_bool |-> TRUE]})
    /\ neo4j = EmptyGraph
    /\ pc = [w \in Workers |-> "idle"]
    /\ event = [w \in Workers |-> << >>]
    /\ lock_item = [w \in Workers |-> {}]
    /\ i = [w \in Workers |-> 0]
    /\ j = [w \in Workers |-> 0]
    /\ err = [w \in Workers |-> ""]
    /\ invocations = 0
    /\ acquires = <<0>>
    /\ releases = [w \in Workers |-> 0]

\* Invocations on a lock item that is absent or that earlier invocations
\* have left.
SpecStale ==
    /\ InitWith(OneMessage) \/ InitAfterRelease(OneMessage)
    /\ [][Next]_vars

\* Snapshots of three services A, B and C, where A (with an instance) has no
\* dependency tag or one that names B or C.
DependencyTags ==
    {<< >>} \cup {<<[Key |-> NEO4J_RELATIONSHIP_TO_SERVICE, Value |-> n]>> : n \in {"B", "C"}}
DependencyPayloads ==
    {<<[Name |-> "A", Instances |-> <<[Id |-> "i1"]>>, Tags |-> t],
       [Name |-> "B", Instances |-> << >>, Tags |-> << >>],
       [Name |-> "C", Instances |-> << >>, Tags |-> << >>]>> : t \in DependencyTags}
DependencyQueues == [1..MaxMessages -> DependencyPayloads]

\* Invocations on snapshots that differ in the dependency tag of a service.
SpecDependency == InitWith(DependencyQueues) /\ [][Next]_vars

\* -------------------------------------------------------------- producer
MaxPages == 2
MaxProduced == 1

\* dict.update(other): the keys of other are set, the other keys are kept
update(d, other) ==
    [k \in DOMAIN d \cup DOMAIN other |-> IF k \in DOMAIN other THEN other[k] ELSE d[k]]

\* paginate_operation's loop from page k on
RECURSIVE paginate_from(_, _, _)
paginate_from(result, page_iterator, k) ==
    IF k > Len(page_iterator) THEN result
    ELSE paginate_from(update(result, page_iterator[k]), page_iterator, k + 1)

\* paginate_operation: result = {}, then result.update(page) for every page
paginate_operation(page_iterator) == paginate_from(<< >>, page_iterator, 1)

\* create_dict_payload on what the CloudMap API answers: list_services and
\* list_instances in pages, list_tags_for_resource in one response
create_dict_payload(cloudmap) ==
    LET payload == update(<< >>, paginate_operation(cloudmap.list_services))
    IN  [payload EXCEPT !.Services =
            [k \in 1..Len(@) |->
                update(update(@[k], paginate_operation(cloudmap.list_instances[@[k].Id])),
                       cloudmap.list_tags_for_resource[@[k].Arn])]]

\* The ways the API cuts a list into at most n pages (an empty list: one
\* page without entries).
RECURSIVE Pages(_, _)
Pages(s, n) ==
    IF n <= 1 \/ Len(s) <= 1 THEN {<<s>>}
    ELSE {<<s>>} \cup
         UNION {{<<SubSeq(s, 1, k)>> \o rest : rest \in Pages(SubSeq(s, k + 1, Len(s)), n - 1)} :
                   k \in 1..(Len(s) - 1)}

\* The services of the namespace as list_services summarises them.
ServiceSummaries == {[Id |-> <<"srv", n>>, Arn |-> <<"arn", n>>, Name |-> n] : n \in ServiceNames}
ServiceListings ==
    {s \in SeqsUpTo(ServiceSummaries, Cardinality(ServiceNames)) : NamesDistinct(s)}
InstanceListings == {<< >>, <<[Id |-> "i1"]>>, <<[Id |-> "i1"], [Id |-> "i2"]>>}

\* What the CloudMap API answers for a namespace.
CloudMaps ==
    {c \in [list_services : UNION {{[k \in 1..Len(p) |-> [Services |-> p[k]]] :
                                        p \in Pages(s, MaxPages)} : s \in ServiceListings},
            list_instances : [{x.Id : x \in ServiceSummaries} ->
                                UNION {{[k \in 1..Len(p) |-> [Instances |-> p[k]]] :
                                          p \in Pages(s, MaxPages)} : s \in InstanceListings}],
            list_tags_for_resource : [{x.Arn : x \in ServiceSummaries} ->
                                        {[Tags |-> t] : t \in TagLists}]] :
        \A x \in ServiceSummaries :
            \/ \E k \in 1..Len(c.list_services) :
                  \E m \in 1..Len(c.list_services[k].Services) :
                      c.list_services[k].Services[m] = x
            \/ /\ c.list_instances[x.Id] = <<[Instances |-> << >>]>>
               /\ c.list_tags_for_resource[x.Arn] = [Tags |-> << >>]}

\* The producer's lambda_handler: the payload is sent to the queue.
producer_lambda_handler(cloudmap) ==
    /\ Len(queue) < MaxProduced
    /\ queue' = Append(queue, create_dict_payload(cloudmap).Services)
    /\ UNCHANGED <<ddb_table, neo4j, pc, event, lock_item, i, j, err, invocations,
                   acquires, releases>>

NextProducer == \E cloudmap \in CloudMaps : producer_lambda_handler(cloudmap)

SpecProducer == InitWith({<< >>}) /\ [][NextProducer]_vars

\* The lock functions under callers that do not keep to acquire-then-release.
NextLock ==
    \/ Next
    \/ \E w \in Workers : CallReleaseLock(w)

SpecLock == InitWith(OneMessage) /\ [][NextLock]_vars

\* ------------------------------------------------------------------ claims
\* A worker that is between a successful acquire_lock and its release_lock.
Holding(w) == pc[w] \in Reconciling \cup Releasing

AcquireErrors == {"put_item: ConditionalCheckFailedException", "Cannot aquire lock"}

\* What a get_item response showed: the version (0: no item), and whether
\* the lock was free (no item, or lock_bool false).
ReadVersion(response) == IF response = {} THEN 0 ELSE (CHOOSE it \in response : TRUE).version
ReadFree(response) == \A it \in response : ~it.lock_bool

\* The successful acquires that had read version v.
Wins(v) == {k \in 1..Len(acquires) : acquires[k] = v}

\* C1: at most one invocation is between a successful acquire_lock and its
\* release_lock, in every reachable state.
C1_MutualExclusion == Cardinality({w \in Workers : Holding(w)}) <= 1

\* Contention: one worker holds the lock while another is about to write.
C1_Witness ==
    \E w, v \in Workers : w # v /\ Holding(w) /\ pc[v] \in {"put_item", "update_item"}

\* C2: of the acquires that read the same absent or unlocked record exactly
\* one succeeds and the others fail with an error; an acquire that read the
\* record free (for one after the holder's release) and that no other
\* acquire has overtaken succeeds.
C2_ExactlyOneAcquires ==
    /\ \A v \in 0..MaxInvocations : Cardinality(Wins(v)) <= 1
    /\ \A w \in Workers :
          (pc[w] = "failed" /\ err[w] \in AcquireErrors /\ ReadFree(lock_item[w]))
              => Cardinality(Wins(ReadVersion(lock_item[w]))) = 1
    /\ \A w \in Workers :
          (pc[w] \in {"put_item", "update_item"} /\ ReadFree(lock_item[w])
             /\ Wins(ReadVersion(lock_item[w])) = {})
              => IF lock_item[w] = {} THEN put_item_condition(ddb_table)
                 ELSE acquire_condition(ddb_table, ReadVersion(lock_item[w]))

\* Two acquires overlapped on a free record: the loser has failed while
\* the winner still holds the lock.
C2_Witness ==
    \E w, v \in Workers :
        /\ w # v
        /\ pc[w] = "failed" /\ err[w] \in AcquireErrors /\ ReadFree(lock_item[w])
        /\ Holding(v)

\* What a payload declares.
ServicesOf(S) == {S[k].Name : k \in 1..Len(S)}
InstancesOf(S) == UNION {{S[k].Instances[m].Id : m \in 1..Len(S[k].Instances)} : k \in 1..Len(S)}
RegisteredOf(S) ==
    UNION {{<<S[k].Instances[m].Id, S[k].Name>> : m \in 1..Len(S[k].Instances)} :
              k \in 1..Len(S)}
TaggedOf(S) ==
    UNION {{<<S[k].Name, S[k].Tags[m].Value>> :
               m \in {n \in 1..Len(S[k].Tags) : S[k].Tags[n].Key = NEO4J_RELATIONSHIP_TO_SERVICE}} :
              k \in 1..Len(S)}
DepOnOf(S) == {e \in TaggedOf(S) : e[2] \in ServicesOf(S)}

Names(nodes) == {n.name : n \in nodes}

\* update_neo4j and clean_neo4j are through: the transaction commits with
\* the release of the lock.
Committing(w) == pc[w] = "release_ok"

\* C3 (as claimed): when a transaction commits, the graph holds exactly the
\* services, instances, registered-with and depends-on edges of its payload.
C3_GraphMatchesPayload ==
    \A w \in Workers :
        Committing(w) =>
            /\ Names(neo4j.Service) = ServicesOf(services_list(w))
            /\ Names(neo4j.Instance) = InstancesOf(services_list(w))
            /\ neo4j.REGISTERED = RegisteredOf(services_list(w))
            /\ neo4j.DEP_ON = DepOnOf(services_list(w))

\* The reconciliation as one run: update_neo4j, then clean_neo4j.
Reconcile(g, S, T) == clean_neo4j(update_neo4j(g, S, T), T)

\* C4: running the reconciliation again, with the same payload and the same
\* transaction id, on the graph a committing run has left, changes nothing.
C4_Idempotent ==
    \A w \in Workers :
        Committing(w) => Reconcile(neo4j, services_list(w), curr_update_id(w)) = neo4j

\* A second invocation commits a payload with services on a graph that the
\* first has written.
C4_Witness ==
    \E w \in Workers :
        /\ Committing(w) /\ invocations = 2
        /\ Len(services_list(w)) > 0
        /\ \E n \in neo4j.Service : TRUE

\* The payload without its service k, and without instance m of service k.
OmitService(S, k) == [n \in 1..(Len(S) - 1) |-> IF n < k THEN S[n] ELSE S[n + 1]]
OmitInstance(S, k, m) ==
    [S EXCEPT ![k].Instances =
        [n \in 1..(Len(@) - 1) |-> IF n < m THEN @[n] ELSE @[n + 1]]]
Omissions(S) ==
    {OmitService(S, k) : k \in 1..Len(S)} \cup
    UNION {{OmitInstance(S, k, m) : m \in 1..Len(S[k].Instances)} : k \in 1..Len(S)}

\* Message ids other than T, one of them of a message not sent so far.
OtherIds(T) == (1..(MaxMessages + 1)) \ {T}

\* C5: on the graph a committing run of payload S1 has left, a run of S2,
\* which is S1 without one service (omitted with the instances listed under
\* it alone) or without one instance, under another transaction id, removes
\* exactly the nodes that S2 omits and the edges at these nodes, and no
\* other node or edge.
C5_ExactPruning ==
    \A w \in Workers :
        Committing(w) =>
            \A S2 \in Omissions(services_list(w)) :
                \A T2 \in OtherIds(curr_update_id(w)) :
                    LET S1 == services_list(w)
                        G2 == Reconcile(neo4j, S2, T2)
                        goneS == ServicesOf(S1) \ ServicesOf(S2)
                        goneI == InstancesOf(S1) \ InstancesOf(S2)
                    IN  /\ Names(G2.Service) = Names(neo4j.Service) \ goneS
                        /\ Names(G2.Instance) = Names(neo4j.Instance) \ goneI
                        /\ G2.REGISTERED =
                               {e \in neo4j.REGISTERED : e[1] \notin goneI /\ e[2] \notin goneS}
                        /\ G2.DEP_ON =
                               {e \in neo4j.DEP_ON : e[1] \notin goneS /\ e[2] \notin goneS}

\* A payload of two services commits, with an instance and a dependency
\* in the graph: there are services and an instance to omit.
C5_Witness ==
    \E w \in Workers :
        /\ Committing(w)
        /\ Len(services_list(w)) = 2
        /\ neo4j.REGISTERED # {} /\ neo4j.DEP_ON # {}

Unlocked == \A it \in ddb_table : ~it.lock_bool

\* The invocation of w has ended after a successful acquire_lock.
EndedAfterAcquire(w) ==
    \/ pc[w] = "done"
    \/ pc[w] = "failed" /\ err[w] \in {"Exception during update neo4j",
                                        "release_lock: ConditionalCheckFailedException"}

\* C6: an invocation that acquired the lock has called release_lock once
\* when it ends, on the success path and when update_neo4j or clean_neo4j
\* raised (the failure reaches the caller after the release, which went
\* through), and not before; and a held lock is free again later.
C6_ReleaseOnEveryExit ==
    /\ [](\A w \in Workers :
            /\ EndedAfterAcquire(w) => releases[w] = 1
            /\ (pc[w] = "failed" /\ err[w] = "Exception during update neo4j") =>
                   (Unlocked \/ \E v \in Workers : v # w /\ Holding(v))
            /\ pc[w] \in Reconciling \cup Releasing => releases[w] = 0)
    /\ \A w \in Workers : Holding(w) ~> Unlocked

\* A reconciliation has failed and its invocation has ended.
C6_Witness ==
    \E w \in Workers :
        pc[w] = "failed" /\ err[w] = "Exception during update neo4j" /\ Unlocked

\* The step is one of w's invocation.
StepOf(w) == pc'[w] # pc[w] \/ i'[w] # i[w] \/ j'[w] # j[w] \/ event'[w] # event[w]

\* C7: an invocation whose acquire_lock failed ends there, and neither the
\* failing acquire nor any step of an invocation that holds no lock changes
\* the graph.
C7_FailedAcquireLeavesGraph ==
    /\ [](\A w \in Workers : err[w] \in AcquireErrors => pc[w] = "failed")
    /\ [][\A w \in Workers :
            (StepOf(w) /\ (\/ pc[w] \notin Reconciling
                           \/ err[w] \in AcquireErrors
                           \/ err'[w] \in AcquireErrors)) => neo4j' = neo4j]_vars

\* An acquire has failed while the graph holds what others have written.
C7_Witness ==
    \E w \in Workers :
        pc[w] = "failed" /\ err[w] \in AcquireErrors /\ neo4j # EmptyGraph

\* C8: release_lock on a record that is not locked raises and leaves the
\* record as it is.
C8_ReleaseOfUnlocked ==
    [][\A w \in Workers :
          (releases'[w] = releases[w] + 1 /\ Unlocked) =>
              /\ ddb_table' = ddb_table
              /\ pc'[w] = "failed"
              /\ err'[w] = "release_lock: ConditionalCheckFailedException"]_vars

\* release_lock has raised on an existing, unlocked record.
C8_Witness ==
    \E w \in Workers :
        /\ err[w] = "release_lock: ConditionalCheckFailedException"
        /\ ddb_table # {} /\ Unlocked

\* The service w's second loop is at carries the tag, and no Service node
\* has the name the tag gives.
TargetMissing(w) ==
    /\ pc[w] = "connect_service"
    /\ \E e \in TaggedOf(<<services_list(w)[i[w]]>>) : e[2] \notin Names(neo4j.Service)

\* C9: connect_service_rel_to_service for a tag that names a service with
\* no node adds no edge and raises nothing: update_neo4j goes on with the
\* next service, or clean_neo4j follows.
C9_MissingTargetSkipped ==
    [][\A w \in Workers :
          (TargetMissing(w) /\ ConnectService(w)) =>
              /\ neo4j' = neo4j
              /\ pc'[w] = (IF i[w] < Len(services_list(w)) THEN "connect_service"
                                                            ELSE "clean_neo4j")]_vars

\* The first transaction commits a payload with a tag that names a service
\* the payload does not hold: the graph had no such node.
C9_Witness ==
    \E w \in Workers :
        /\ Committing(w) /\ invocations = 1
        /\ TaggedOf(services_list(w)) \ DepOnOf(services_list(w)) # {}

\* C10: an invocation with more than one record has failed when it has
\* started: it reads no lock item, and its start changes neither the lock
\* item nor the graph.
C10_BatchRejected ==
    /\ [](\A w \in Workers :
            Len(event[w]) > 1 =>
                /\ pc[w] = "failed"
                /\ err[w] = "more than 1 message record"
                /\ lock_item[w] = {})
    /\ [][\A w \in Workers :
            (Len(event'[w]) > 1 /\ (StepOf(w) \/ invocations' # invocations)) =>
                UNCHANGED <<ddb_table, neo4j>>]_vars

\* An event of two records has been rejected while another worker holds
\* the lock.
C10_Witness ==
    \E w, v \in Workers : Len(event[w]) > 1 /\ v # w /\ Holding(v)

Stamps(nodes) == {n.update_id : n \in nodes}

\* C11: on the graph a committing run of payload S under T1 has left, a run
\* of the same S under another transaction id T2 deletes nothing: the same
\* Service nodes, Instance nodes and edges, and every node stamped T2.
C11_RestampOnly ==
    \A w \in Workers :
        Committing(w) =>
            \A T2 \in OtherIds(curr_update_id(w)) :
                LET G2 == Reconcile(neo4j, services_list(w), T2)
                IN  /\ Names(G2.Service) = Names(neo4j.Service)
                    /\ Names(G2.Instance) = Names(neo4j.Instance)
                    /\ G2.REGISTERED = neo4j.REGISTERED
                    /\ G2.DEP_ON = neo4j.DEP_ON
                    /\ Stamps(G2.Service) \cup Stamps(G2.Instance) \subseteq {T2}
                    /\ Cardinality(G2.Service) = Cardinality(neo4j.Service)
                    /\ Cardinality(G2.Instance) = Cardinality(neo4j.Instance)

\* A payload with two services, an instance and a dependency commits.
C11_Witness ==
    \E w \in Workers :
        /\ Committing(w)
        /\ Cardinality(neo4j.Service) = 2 /\ neo4j.Instance # {}
        /\ neo4j.DEP_ON # {} /\ neo4j.REGISTERED # {}
        /\ Stamps(neo4j.Service) \cup Stamps(neo4j.Instance) = {curr_update_id(w)}

\* The version of the lock item; 0 while there is none.
Version == ReadVersion(ddb_table)

\* C12: version is the number of successful acquires so far (the first one
\* creates the item at version 1); a step with a successful acquire adds
\* exactly 1 to it, and every other step (a release, a failed acquire, a
\* release that raises) leaves it as it is.
C12_VersionCounter ==
    /\ [](Version = Len(acquires))
    /\ [][IF Len(acquires') = Len(acquires) + 1
          THEN Version' = Version + 1
          ELSE Version' = Version]_vars

\* The second acquire has succeeded and its lock has been released.
C12_Witness ==
    /\ Version = 2 /\ Unlocked
    /\ \E w \in Workers : pc[w] = "done" /\ releases[w] = 1

Locked == \E it \in ddb_table : it.lock_bool

\* C13: the lock item's lock_bool is true exactly when one invocation is
\* between its successful acquire_lock and its release_lock; with the item
\* there and no such invocation, lock_bool is false.
C13_LockedIffHeld ==
    /\ Locked <=> Cardinality({w \in Workers : Holding(w)}) = 1
    /\ (ddb_table # {} /\ \A w \in Workers : ~Holding(w)) => Unlocked

\* The lock has been acquired, released and acquired again by another
\* invocation.
C13_Witness ==
    \E w, v \in Workers :
        w # v /\ pc[w] = "done" /\ releases[w] = 1 /\ Holding(v) /\ Locked /\ Version = 2

\* The version w has read is not the version of the lock item any more.
StaleRead(w) ==
    /\ pc[w] \in {"put_item", "update_item"}
    /\ ReadVersion(lock_item[w]) # Version

\* C14: of the acquires that read the same version at most one succeeds;
\* the conditional write of an acquire whose read is stale fails and
\* leaves the item as it is, also when the item is unlocked again.
C14_StaleReadFails ==
    /\ [](\A v \in 0..(MaxInvocations + 1) : Cardinality(Wins(v)) <= 1)
    /\ [][\A w \in Workers :
            (StaleRead(w) /\ StepOf(w)) =>
                /\ pc'[w] = "failed"
                /\ err'[w] \in AcquireErrors
                /\ ddb_table' = ddb_table]_vars

\* Two acquires read version 1 of the unlocked item; the winner has
\* released the lock (version 2, unlocked) before the loser has written,
\* and the loser has failed.
C14_Witness ==
    \E w, v \in Workers :
        /\ w # v
        /\ pc[w] = "failed" /\ err[w] = "Cannot aquire lock"
        /\ ReadFree(lock_item[w]) /\ ReadVersion(lock_item[w]) = 1
        /\ pc[v] = "done" /\ Version = 2 /\ Unlocked

\* C15: an invocation makes one acquire attempt, a get_item and then one
\* conditional write, and none after it; the attempt that fails leaves the
\* lock item as it is and ends the invocation, which has not called
\* release_lock: the lock of the winner stays locked.
C15_FailFastAcquire ==
    /\ [](\A w \in Workers :
            (pc[w] = "failed" /\ err[w] \in AcquireErrors) => releases[w] = 0)
    /\ [][\A w \in Workers :
            /\ (StepOf(w) /\ pc[w] = "get_item") => pc'[w] \in {"put_item", "update_item"}
            /\ (StepOf(w) /\ pc[w] \in {"put_item", "update_item"}) => pc'[w] \notin Acquiring
            /\ (StepOf(w) /\ err'[w] \in AcquireErrors /\ pc[w] \in Acquiring) =>
                   /\ ddb_table' = ddb_table
                   /\ pc'[w] = "failed"
            /\ (StepOf(w) /\ err[w] \in AcquireErrors) => invocations' = invocations + 1]_vars

\* An acquire that read the item locked has failed; the winner still
\* holds the lock.
C15_Witness ==
    \E w, v \in Workers :
        /\ w # v
        /\ pc[w] = "failed" /\ err[w] = "Cannot aquire lock" /\ releases[w] = 0
        /\ ~ReadFree(lock_item[w])
        /\ Holding(v) /\ Locked

\* The depends-on edges that leave the Service node with the name.
DepOnFrom(name) == {e \in neo4j.DEP_ON : e[1] = name}

\* C16 (as claimed): when a transaction commits, every Service node has
\* depends-on edges to at most one Service.
C16_AtMostOneDependency ==
    \A w \in Workers :
        Committing(w) => \A n \in neo4j.Service : Cardinality(DepOnFrom(n.name)) <= 1

\* The registered-with edges that leave the Instance node with the name.
RegisteredFrom(name) == {e \in neo4j.REGISTERED : e[1] = name}

\* Every instance id of the payload is listed under one service.
OneOwner(S) ==
    \A id \in InstancesOf(S) : Cardinality({e \in RegisteredOf(S) : e[1] = id}) = 1

\* C17 (as claimed): when a transaction commits a payload that lists every
\* instance under one service, every Instance node has exactly one
\* registered-with edge, and it points at the service that lists it.
C17_ExactlyOneRegistration ==
    \A w \in Workers :
        (Committing(w) /\ OneOwner(services_list(w))) =>
            \A n \in neo4j.Instance :
                /\ Cardinality(RegisteredFrom(n.name)) = 1
                /\ RegisteredFrom(n.name) \subseteq RegisteredOf(services_list(w))

\* C18: every service of the snapshot has its node before the first
\* relationship is resolved, so the depends-on edge of every tag that names
\* a service of the snapshot exists after the reconciliation, whatever the
\* order of the list and whatever the graph held before: in the committing
\* run, and in the run of every snapshot of the queue on a graph that no
\* invocation is working on.
C18_OrderIndependent ==
    /\ \A w \in Workers :
          /\ pc[w] = "connect_service" =>
                 ServicesOf(services_list(w)) \subseteq Names(neo4j.Service)
          /\ Committing(w) => DepOnOf(services_list(w)) \subseteq neo4j.DEP_ON
    /\ (\A w \in Workers : ~Holding(w)) =>
          \A m \in DOMAIN queue :
              DepOnOf(queue[m]) \subseteq Reconcile(neo4j, queue[m], m).DEP_ON

\* The first transaction commits a snapshot whose first service names its
\* second in the tag: the target had no node when the run began.
C18_Witness ==
    \E w \in Workers :
        /\ Committing(w) /\ invocations = 1
        /\ Len(services_list(w)) = 2
        /\ <<services_list(w)[1].Name, services_list(w)[2].Name>> \in TaggedOf(services_list(w))
        /\ <<services_list(w)[1].Name, services_list(w)[2].Name>> \in neo4j.DEP_ON

\* The step removes no node and no edge.
NoDeletion ==
    /\ Names(neo4j.Service) \subseteq Names(neo4j'.Service)
    /\ Names(neo4j.Instance) \subseteq Names(neo4j'.Instance)
    /\ neo4j.REGISTERED \subseteq neo4j'.REGISTERED
    /\ neo4j.DEP_ON \subseteq neo4j'.DEP_ON

\* C19: clean_neo4j is entered only from the end of update_neo4j, and no
\* other step of an invocation deletes a node or an edge; the step in which
\* update_neo4j raises leaves the graph with the upserts made so far and
\* goes to release_lock, after which the lock is free and the invocation
\* has failed with the graph unchanged.
C19_PruneAfterUpdateOnly ==
    [][\A w \in Workers :
          /\ (StepOf(w) /\ pc[w] # "clean_neo4j") => NoDeletion
          /\ (StepOf(w) /\ pc'[w] = "clean_neo4j") =>
                 /\ pc[w] \in {"put_item", "update_item", "merge_s", "merge_instance",
                               "connect_service"}
                 /\ ~UpdateNeo4jRaises(w)
                 /\ ServicesOf(services_list(w)) \subseteq Names(neo4j'.Service)
          /\ UpdateNeo4jRaises(w) => (neo4j' = neo4j /\ pc'[w] = "release_err")
          /\ (StepOf(w) /\ pc[w] = "release_err") =>
                 /\ neo4j' = neo4j
                 /\ pc'[w] = "failed"
                 /\ err'[w] = "Exception during update neo4j"
                 /\ \A it \in ddb_table' : ~it.lock_bool]_vars

\* update_neo4j has raised before it had merged every service: the
\* invocation has failed, the lock is free, the graph holds a node the run
\* has stamped and a node of an earlier run that it has not pruned.
C19_Witness ==
    \E w \in Workers :
        /\ pc[w] = "failed" /\ err[w] = "Exception during update neo4j"
        /\ Unlocked
        /\ ServicesOf(services_list(w)) \ Names(neo4j.Service) # {}
        /\ curr_update_id(w) \in Stamps(neo4j.Service)
        /\ (Stamps(neo4j.Service) \cup Stamps(neo4j.Instance)) \ {curr_update_id(w)} # {}

Crashed == \E w \in Workers : pc[w] = "crashed"

\* C20: once an invocation is killed between acquire_lock and release_lock
\* the lock item stays locked: no step changes it, no invocation holds the
\* lock or changes the graph, and every acquire that writes fails.
C20_NoExpiry ==
    /\ [](Crashed => (Locked /\ \A v \in Workers : ~Holding(v)))
    /\ [][Crashed =>
            /\ ddb_table' = ddb_table
            /\ neo4j' = neo4j
            /\ acquires' = acquires
            /\ \A w \in Workers :
                  /\ pc[w] = "crashed" => pc'[w] = "crashed"
                  /\ (StepOf(w) /\ pc[w] \in {"put_item", "update_item"}) =>
                         (pc'[w] = "failed" /\ err'[w] \in AcquireErrors)]_vars

\* The holder has been killed, and an invocation that found the item
\* locked has failed to acquire.
C20_Witness ==
    \E w, v \in Workers :
        /\ pc[w] = "crashed" /\ Locked
        /\ pc[v] = "failed" /\ err[v] = "Cannot aquire lock"
        /\ ~ReadFree(lock_item[v])
        /\ invocations = MaxInvocations

\* The depends-on edges the step creates.
NewDepOn == neo4j'.DEP_ON \ neo4j.DEP_ON

\* C21 (as claimed): no step of a transaction creates a depends-on edge to
\* a service that its snapshot does not hold.
C21_NoEdgeToAbsentEver ==
    [][\A w \in Workers :
          (StepOf(w) /\ Holding(w)) =>
              \A e \in NewDepOn : e[2] \in ServicesOf(services_list(w))]_vars

\* C21 (amended): a depends-on edge is created only to a Service node that
\* exists, and when the transaction commits the graph has no depends-on
\* edge to a service that its snapshot does not hold: the edge to a node of
\* an earlier snapshot goes with that node in clean_neo4j.
C21_NoEdgeToAbsentAtCommit ==
    /\ [](\A w \in Workers :
            Committing(w) =>
                \A e \in neo4j.DEP_ON :
                    e[1] \in ServicesOf(services_list(w)) /\ e[2] \in ServicesOf(services_list(w)))
    /\ [][\A e \in NewDepOn : e[2] \in Names(neo4j.Service)]_vars

\* The edge pass is through and has created the edge of a tag to a node
\* that the snapshot does not hold; clean_neo4j comes next.
C21_Witness ==
    \E w \in Workers :
        /\ pc[w] = "clean_neo4j"
        /\ \E e \in neo4j.DEP_ON :
              e \in TaggedOf(services_list(w)) /\ e[2] \notin ServicesOf(services_list(w))

\* C22: when a transaction commits, every node carries its update_id and
\* the nodes are the services and instances of its snapshot, whatever
\* earlier transactions have left; the release of a commit leaves the lock
\* free and the graph with one stamp, and the graph changes only in steps
\* of an invocation that holds the lock.
C22_SelfHealing ==
    /\ [](\A w \in Workers :
            Committing(w) =>
                /\ Stamps(neo4j.Service) \cup Stamps(neo4j.Instance) \subseteq {curr_update_id(w)}
                /\ Names(neo4j.Service) = ServicesOf(services_list(w))
                /\ Names(neo4j.Instance) = InstancesOf(services_list(w)))
    /\ [][/\ \A w \in Workers :
               (StepOf(w) /\ Committing(w)) =>
                   /\ pc'[w] = "done"
                   /\ \A it \in ddb_table' : ~it.lock_bool
                   /\ Cardinality(Stamps(neo4j'.Service) \cup Stamps(neo4j'.Instance)) <= 1
          /\ (\A w \in Workers : ~Holding(w)) => neo4j' = neo4j]_vars

\* A transaction commits after another, with another snapshot, has failed
\* in its reconciliation.
C22_Witness ==
    \E w, v \in Workers :
        /\ Committing(w) /\ invocations = 2
        /\ pc[v] = "failed" /\ err[v] = "Exception during update neo4j"
        /\ curr_update_id(v) # curr_update_id(w)
        /\ ServicesOf(services_list(v)) \ ServicesOf(services_list(w)) # {}
        /\ neo4j.Service # {} /\ neo4j.Instance # {}

\* All entries of all pages, in the order of the pages.
RECURSIVE AllPages(_, _, _)
AllPages(page_iterator, key, k) ==
    IF k > Len(page_iterator) THEN << >>
    ELSE page_iterator[k][key] \o AllPages(page_iterator, key, k + 1)

\* C23 (as claimed): the payload the producer sends holds every service of
\* every page of list_services and, for each service, every instance of
\* every page of list_instances.
C23_SnapshotComplete ==
    [][\A cloudmap \in CloudMaps :
          producer_lambda_handler(cloudmap) =>
              LET Services == queue'[Len(queue')]
                  listed == AllPages(cloudmap.list_services, "Services", 1)
              IN  /\ [k \in 1..Len(Services) |-> Services[k].Name] =
                         [k \in 1..Len(listed) |-> listed[k].Name]
                  /\ \A k \in 1..Len(Services) :
                         Services[k].Instances =
                             AllPages(cloudmap.list_instances[Services[k].Id], "Instances", 1)]_vars

====
